---- MODULE Spec2Model ----
(***************************************************************************)
(* A model of the SunSpec model viewer: the host selection flow (App.tsx), *)
(* the tree view (TreeView.tsx: buildTree, filteredTree, toggleNode,       *)
(* renderNode), and the catalog service (githubService: getModel,          *)
(* getAllModelsWithMetadata, extractModelInfo, categorizeModels).          *)
(*                                                                         *)
(* JavaScript strings that the code inspects character by character        *)
(* (names, labels, descriptions, search terms, file names) are tuples of   *)
(* one-character strings; node ids, which the code only concatenates and   *)
(* compares, are TLA+ strings.  An optional value is None or Some(v); an   *)
(* optional property of a JSON object is a field that is or is not in the  *)
(* DOMAIN of the record.                                                   *)
(***************************************************************************)
EXTENDS Integers, Sequences, FiniteSets, TLC

VARIABLES
    model,              \* App.tsx:9    the displayed model, NoModel for null
    selectedModelInfo,  \* App.tsx:10   None or Some(modelInfo)
    error,              \* App.tsx:11   the error message, "" for none
    isLoading,          \* App.tsx:12
    calls,              \* the suspended handleModelSelect invocations
    nreq,               \* how many times handleModelSelect was invoked
    searchTerm,         \* TreeView.tsx:10
    expandedNodes,      \* TreeView.tsx:11
    cpc,                \* where loadModels / getAllModelsWithMetadata stands
    files,              \* githubService:32   the listing, filtered to *.json
    responses,          \* what getModel settled to, per listing entry
    models,             \* ModelList.tsx:11
    categorizedModels,  \* ModelList.tsx:12
    listLoading,        \* ModelList.tsx:16
    listError           \* ModelList.tsx:17

appVars == <<model, selectedModelInfo, error, isLoading, calls, nreq>>
viewVars == <<searchTerm, expandedNodes>>
catVars == <<cpc, files, responses, models, categorizedModels, listLoading, listError>>
vars == <<appVars, viewVars, catVars>>

----------------------------------------------------------------------------
(* Values *)

None == [some |-> FALSE]
Some(v) == [some |-> TRUE, val |-> v]

SeqsUpTo(S, n) == UNION {[1..k -> S] : k \in 0..n}

\* obj.f of a JSON object: undefined when the property is absent
Field(obj, f) == IF f \in DOMAIN obj THEN Some(obj[f]) ELSE None

NoModel == [null |-> TRUE]

----------------------------------------------------------------------------
(* Strings as tuples of characters *)

\* String.prototype.toLowerCase on the characters the model uses
LowerChar(c) ==
    CASE c = "A" -> "a"
      [] c = "G" -> "g"
      [] c = "L" -> "l"
      [] c = "M" -> "m"
      [] c = "O" -> "o"
      [] c = "V" -> "v"
      [] c = "X" -> "x"
      [] OTHER -> c

toLowerCase(s) == [i \in 1..Len(s) |-> LowerChar(s[i])]

\* String.prototype.includes: t occurs in s as a contiguous substring
includes(s, t) ==
    \E i \in 0..(Len(s) - Len(t)) : SubSeq(s, i + 1, i + Len(t)) = t

\* Number -> decimal string, as a template literal renders it
RECURSIVE Digits(_)
Digits(n) ==
    IF n < 10 THEN <<ToString(n)>>
    ELSE Digits(n \div 10) \o <<ToString(n % 10)>>

----------------------------------------------------------------------------
(* TreeView.tsx: buildTree *)

\* a mutation of childId: the kind of the child left out of its id
childId_noKind(id, kind, index) == id \o "_" \o ToString(index)

\* a mutation of childId: the children numbered from 1
childId_oneBased(id, kind, index) == id \o "_" \o kind \o "_" \o ToString(index + 1)

\* `${id}_point_${index}` and `${id}_group_${index}` (TreeView.tsx:52, 66)
childId(id, kind, index) == id \o "_" \o kind \o "_" \o ToString(index)

RECURSIVE createTreeNode(_, _, _, _, _, _, _)
createTreeNode(id, name, label, type, data, level, exp) ==
    LET pointNode(i) ==
            createTreeNode(childId(id, "point", i - 1),
                           data.points[i].name, Field(data.points[i], "label"),
                           "point", data.points[i], level + 1, exp)
        groupNode(i) ==
            createTreeNode(childId(id, "group", i - 1),
                           data.groups[i].name, Field(data.groups[i], "label"),
                           "group", data.groups[i], level + 1, exp)
        children ==
            IF type = "model"
            THEN IF "group" \in DOMAIN data
                 THEN <<createTreeNode(id \o "_group", data.group.name,
                                       Field(data.group, "label"), "group",
                                       data.group, level + 1, exp)>>
                 ELSE <<>>
            ELSE IF type = "group"
            THEN (IF "points" \in DOMAIN data
                  THEN [i \in 1..Len(data.points) |-> pointNode(i)]
                  ELSE <<>>)
                 \o
                 (IF "groups" \in DOMAIN data
                  THEN [i \in 1..Len(data.groups) |-> groupNode(i)]
                  ELSE <<>>)
            ELSE <<>>
    IN  [id |-> id, name |-> name, label |-> label, type |-> type,
         isExpanded |-> id \in exp, children |-> children,
         data |-> data, level |-> level]

\* a mutation of build: the children of a collapsed node are not built
RECURSIVE collapseClosed(_)
collapseClosed(node) ==
    [node EXCEPT !.children =
        IF node.isExpanded
        THEN [i \in 1..Len(node.children) |-> collapseClosed(node.children[i])]
        ELSE <<>>]

build_lazy(m, exp) ==
    collapseClosed(
        createTreeNode("root", <<"M", "o", "d", "e", "l", " ">> \o Digits(m.id),
                       Field(m, "label"), "model", m, 0, exp))

\* the memoised tree of a model under an expansion set (TreeView.tsx:80)
build(m, exp) ==
    createTreeNode("root", <<"M", "o", "d", "e", "l", " ">> \o Digits(m.id),
                   Field(m, "label"), "model", m, 0, exp)

buildTree == build(model, expandedNodes)

----------------------------------------------------------------------------
(* TreeView.tsx: filteredTree *)

NoNode == [null |-> TRUE]

\* s?.toLowerCase().includes(term.toLowerCase()) of an optional string
optIncludes(s, term) ==
    s.some /\ includes(toLowerCase(s.val), toLowerCase(term))

\* a mutation of matchesSearch: only collapsed nodes are searched
matchesSearch_collapsedOnly(node, term) ==
    /\ ~node.isExpanded
    /\ \/ includes(toLowerCase(node.name), toLowerCase(term))
       \/ optIncludes(node.label, term)
       \/ (node.type = "point" /\ optIncludes(Field(node.data, "desc"), term))

\* the predicate of TreeView.tsx:87-91
matchesSearch(node, term) ==
    \/ includes(toLowerCase(node.name), toLowerCase(term))
    \/ optIncludes(node.label, term)
    \/ (node.type = "point" /\ optIncludes(Field(node.data, "desc"), term))

\* a mutation of keeps: a node survives only when it matches itself
keeps_selfOnly(matches, filteredChildren) == matches

\* the condition under which filterNode returns a node (TreeView.tsx:96)
keeps(matches, filteredChildren) == matches \/ Len(filteredChildren) > 0

RECURSIVE filterNode(_, _)
filterNode(node, term) ==
    LET mapped == [i \in 1..Len(node.children) |->
                        filterNode(node.children[i], term)]
        filteredChildren == SelectSeq(mapped, LAMBDA c : c # NoNode)
    IN  IF keeps(matchesSearch(node, term), filteredChildren)
        THEN [node EXCEPT !.children = filteredChildren, !.isExpanded = TRUE]
        ELSE NoNode

\* a mutation of filter: the empty term is filtered like any other
filter_always(tree, term) == filterNode(tree, term)

\* the body of the useMemo (TreeView.tsx:83-107)
filter(tree, term) == IF term = <<>> THEN tree ELSE filterNode(tree, term)

filteredTree == filter(buildTree, searchTerm)

----------------------------------------------------------------------------
(* TreeView.tsx: toggleNode, renderNode *)

\* a mutation of toggle: an id is added and never removed
toggle_addOnly(prev, nodeId) == prev \cup {nodeId}

\* the updater of setExpandedNodes (TreeView.tsx:111-119)
toggle(prev, nodeId) ==
    IF nodeId \in prev THEN prev \ {nodeId} ELSE prev \cup {nodeId}

RECURSIVE Flatten(_)
Flatten(ss) == IF ss = <<>> THEN <<>> ELSE Head(ss) \o Flatten(Tail(ss))

\* whether renderNode draws the children of node (TreeView.tsx:123-124, 173)
showsChildren(node, exp) == Len(node.children) > 0 /\ node.id \in exp

\* the rows renderNode draws for node, in document order
RECURSIVE renderNode(_, _)
renderNode(node, exp) ==
    <<[id |-> node.id, hasChildren |-> Len(node.children) > 0]>>
    \o (IF showsChildren(node, exp)
        THEN Flatten([i \in 1..Len(node.children) |->
                          renderNode(node.children[i], exp)])
        ELSE <<>>)

Range(s) == {s[i] : i \in DOMAIN s}

\* TreeView is on screen while App holds a model (App.tsx:57, 75)
mounted == model # NoModel

\* the rows on screen: the filtered tree, or the "No results" placeholder
rendered ==
    IF ~mounted THEN <<>>
    ELSE IF filteredTree = NoNode THEN <<>>
    ELSE renderNode(filteredTree, expandedNodes)

\* typing in the search box (TreeView.tsx:201)
SetSearchTerm(t) ==
    /\ mounted
    /\ t # searchTerm
    /\ searchTerm' = t
    /\ UNCHANGED <<appVars, expandedNodes, catVars>>

\* a click on a rendered row; rows without children ignore it (TreeView.tsx:133)
ToggleNode(row) ==
    /\ mounted
    /\ row \in Range(rendered)
    /\ row.hasChildren
    /\ expandedNodes' = toggle(expandedNodes, row.id)
    /\ UNCHANGED <<appVars, searchTerm, catVars>>

\* ModelList is not on screen while a model is shown (App.tsx:57-60)
catalogUnmounted ==
    /\ cpc = "unmounted"
    /\ files = <<>>
    /\ responses = <<>>
    /\ models = <<>>
    /\ categorizedModels = <<>>
    /\ listLoading = FALSE
    /\ listError = ""

----------------------------------------------------------------------------
(* The models the tree view is exercised on *)

MaxPoints == 2
MaxGroups == 1

PointPool ==
    { [name |-> <<"V", "o">>],
      [name |-> <<"A">>, label |-> <<"B">>, desc |-> <<"x", "V", "O">>] }

\* nested groups: one without a "groups" property, one with empty
\* collections, and one that nests a further group
LeafGroupPool ==
    { [name |-> <<"G">>, points |-> <<[name |-> <<"V", "o">>]>>],
      [name |-> <<"b">>, points |-> <<>>, groups |-> <<>>],
      [name |-> <<"G">>, label |-> <<"a">>,
       groups |-> <<[name |-> <<"A">>,
                     points |-> <<[name |-> <<"v", "o", "b">>]>>]>>] }

TopGroups ==
    { [name |-> <<"G">>, points |-> ps, groups |-> gs] :
        ps \in SeqsUpTo(PointPool, MaxPoints),
        gs \in SeqsUpTo(LeafGroupPool, MaxGroups) }
    \cup
    { [name |-> <<"A">>, label |-> <<"V", "o", "x">>, points |-> ps, groups |-> gs] :
        ps \in SeqsUpTo(PointPool, MaxPoints),
        gs \in SeqsUpTo(LeafGroupPool, MaxGroups) }

TreeModels == { [id |-> 1, group |-> g] : g \in TopGroups }

Terms == { <<>>, <<"v", "O">>, <<"b">>, <<"L">> }

\* TreeView mounted on a model: useState defaults (TreeView.tsx:10-11)
InitTree ==
    /\ model \in TreeModels
    /\ selectedModelInfo = None
    /\ error = ""
    /\ isLoading = FALSE
    /\ calls = {}
    /\ nreq = 0
    /\ searchTerm = <<>>
    /\ expandedNodes = {"root"}
    /\ catalogUnmounted

NextTree ==
    \/ \E t \in Terms : SetSearchTerm(t)
    \/ \E row \in Range(rendered) : ToggleNode(row)

SpecTree == InitTree /\ [][NextTree]_vars

----------------------------------------------------------------------------
(* githubService: getModel as seen by its caller *)

RECURSIVE Join(_)
Join(s) == IF s = <<>> THEN "" ELSE Head(s) \o Join(Tail(s))

\* what the awaited getModel(filename) settles to: the parsed document, or
\* the Error that its catch block rethrows (lines 71-74)
Resolved(doc) == [ok |-> TRUE, doc |-> doc]
Rejected(filename) ==
    [ok |-> FALSE, message |-> "Failed to load model: " \o Join(filename)]
Pending == [pending |-> TRUE]

JsonNull == [jsonNull |-> TRUE]

\* !x of an optional number: undefined and 0 are falsy
falsyNumber(x) == ~x.some \/ x.val = 0

----------------------------------------------------------------------------
(* githubService: extractModelInfo *)

IsDigit(c) == c \in {"0", "1", "2", "3", "4", "5", "6", "7", "8", "9"}

DigitValue(c) ==
    CASE c = "0" -> 0 [] c = "1" -> 1 [] c = "2" -> 2 [] c = "3" -> 3
      [] c = "4" -> 4 [] c = "5" -> 5 [] c = "6" -> 6 [] c = "7" -> 7
      [] c = "8" -> 8 [] c = "9" -> 9

\* parseInt of a string of decimal digits
RECURSIVE parseInt(_)
parseInt(s) ==
    IF s = <<>> THEN 0
    ELSE 10 * parseInt(SubSeq(s, 1, Len(s) - 1)) + DigitValue(s[Len(s)])

startsWithAt(s, i, t) ==
    i + Len(t) - 1 <= Len(s) /\ SubSeq(s, i, i + Len(t) - 1) = t

endsWith(s, t) == Len(t) <= Len(s) /\ SubSeq(s, Len(s) - Len(t) + 1, Len(s)) = t

DotJson == <<".", "j", "s", "o", "n">>
ModelUnderscore == <<"m", "o", "d", "e", "l", "_">>

\* the run of digits of s that starts at position i
digitsAt(s, i) ==
    LET stop == CHOOSE j \in i..(Len(s) + 1) :
                    /\ \A k \in i..(j - 1) : IsDigit(s[k])
                    /\ (j = Len(s) + 1 \/ ~IsDigit(s[j]))
    IN  SubSeq(s, i, stop - 1)

\* filename.match(/model_(\d+)\.json/): the first capture of the leftmost
\* match, None when nothing matches
matchModelId(filename) ==
    LET hit(i) ==
            /\ startsWithAt(filename, i, ModelUnderscore)
            /\ Len(digitsAt(filename, i + 6)) > 0
            /\ startsWithAt(filename, i + 6 + Len(digitsAt(filename, i + 6)), DotJson)
        hits == {i \in 1..Len(filename) : hit(i)}
    IN  IF hits = {} THEN None
        ELSE LET first == CHOOSE i \in hits : \A j \in hits : i <= j
             IN  Some(digitsAt(filename, first + 6))

\* s.replace(t, ''): the first occurrence of t removed
replaceFirst(s, t) ==
    LET at == {i \in 1..Len(s) : startsWithAt(s, i, t)}
    IN  IF at = {} THEN s
        ELSE LET first == CHOOSE i \in at : \A j \in at : i <= j
             IN  SubSeq(s, 1, first - 1) \o SubSeq(s, first + Len(t), Len(s))

\* a || b of optional strings: the empty string is falsy
orElse(a, b) == IF a.some /\ a.val # <<>> THEN a ELSE b

\* obj.group?.f
groupField(doc, f) ==
    IF "group" \in DOMAIN doc THEN Field(doc.group, f) ELSE None

\* a mutation of extractModelInfo: the id of the document before the file name
extractModelInfo_payloadFirst(filename, modelData) ==
    LET idMatch == matchModelId(filename)
        id == IF ~falsyNumber(Field(modelData, "id")) THEN modelData.id
              ELSE IF idMatch.some THEN parseInt(idMatch.val)
              ELSE 0
    IN  [id |-> id,
         name |-> replaceFirst(filename, DotJson),
         label |-> orElse(Field(modelData, "label"), groupField(modelData, "label")),
         desc |-> orElse(Field(modelData, "desc"), groupField(modelData, "desc"))]

\* extractModelInfo for a document that is an object; on null the property
\* reads throw (lines 80, 85)
extractModelInfo(filename, modelData) ==
    LET idMatch == matchModelId(filename)
        id == IF idMatch.some THEN parseInt(idMatch.val)
              ELSE IF falsyNumber(Field(modelData, "id")) THEN 0
              ELSE modelData.id
    IN  [id |-> id,
         name |-> replaceFirst(filename, DotJson),
         label |-> orElse(Field(modelData, "label"), groupField(modelData, "label")),
         desc |-> orElse(Field(modelData, "desc"), groupField(modelData, "desc"))]

----------------------------------------------------------------------------
(* githubService: getAllModelsWithMetadata *)

Null == [null |-> TRUE]

\* a mutation of perItem: a failed entry yields a placeholder descriptor
perItem_placeholder(filename, resp) ==
    IF ~resp.ok \/ resp.doc = JsonNull
    THEN [id |-> 0, name |-> filename, label |-> None, desc |-> None,
          filename |-> filename]
    ELSE extractModelInfo(filename, resp.doc) @@ [filename |-> filename]

\* the value the per-file promise fulfils with once getModel has settled
\* (lines 36-48): the descriptor, or null when the fetch or the extraction threw
perItem(filename, resp) ==
    IF ~resp.ok \/ resp.doc = JsonNull
    THEN Null
    ELSE extractModelInfo(filename, resp.doc) @@ [filename |-> filename]

\* a mutation of sortById: equal ids change places
RECURSIVE sortById_unstable(_)
sortById_unstable(s) ==
    IF s = <<>> THEN <<>>
    ELSE LET rest == sortById_unstable(SubSeq(s, 1, Len(s) - 1))
             x == s[Len(s)]
             before == SelectSeq(rest, LAMBDA y : y.id - x.id < 0)
             after == SelectSeq(rest, LAMBDA y : y.id - x.id >= 0)
         IN  before \o <<x>> \o after

\* validModels.sort((a, b) => a.id - b.id): Array.prototype.sort is stable;
\* each element goes behind those that compare less than or equal to it
RECURSIVE sortById(_)
sortById(s) ==
    IF s = <<>> THEN <<>>
    ELSE LET rest == sortById(SubSeq(s, 1, Len(s) - 1))
             x == s[Len(s)]
             before == SelectSeq(rest, LAMBDA y : y.id - x.id <= 0)
             after == SelectSeq(rest, LAMBDA y : y.id - x.id > 0)
         IN  before \o <<x>> \o after

\* what getAllModelsWithMetadata returns once Promise.all has resolved
\* (lines 50-55): the results in listing order, nulls dropped, sorted
allModelsWithMetadata(fs, resps) ==
    LET results == [i \in 1..Len(fs) |-> perItem(fs[i], resps[i])]
        validModels == SelectSeq(results, LAMBDA r : r # Null)
    IN  sortById(validModels)

----------------------------------------------------------------------------
(* githubService: categorizeModels *)

\* a mutation of bucketOf: the upper bounds taken inclusive
bucketOf_inclusive(id) ==
    IF id <= 100 THEN "1-99"
    ELSE IF id <= 200 THEN "100-199"
    ELSE IF id <= 300 THEN "200-299"
    ELSE IF id <= 400 THEN "300-399"
    ELSE IF id <= 500 THEN "400-499"
    ELSE IF id <= 600 THEN "500-599"
    ELSE IF id <= 700 THEN "600-699"
    ELSE IF id <= 800 THEN "700-799"
    ELSE IF id <= 900 THEN "800-899"
    ELSE "900+"

\* the if-chain of lines 105-125
bucketOf(id) ==
    IF id < 100 THEN "1-99"
    ELSE IF id < 200 THEN "100-199"
    ELSE IF id < 300 THEN "200-299"
    ELSE IF id < 400 THEN "300-399"
    ELSE IF id < 500 THEN "400-499"
    ELSE IF id < 600 THEN "500-599"
    ELSE IF id < 700 THEN "600-699"
    ELSE IF id < 800 THEN "700-799"
    ELSE IF id < 900 THEN "800-899"
    ELSE "900+"

\* the object literal of lines 91-102, in insertion order
categoryTable ==
    << [range |-> "1-99",    description |-> "Common & Basic Models"],
       [range |-> "100-199", description |-> "Inverter Models"],
       [range |-> "200-299", description |-> "Meter Models"],
       [range |-> "300-399", description |-> "Environmental Models"],
       [range |-> "400-499", description |-> "String Combiner Models"],
       [range |-> "500-599", description |-> "Panel Models"],
       [range |-> "600-699", description |-> "Tracker Models"],
       [range |-> "700-799", description |-> "DER Control Models"],
       [range |-> "800-899", description |-> "Storage Models"],
       [range |-> "900+",    description |-> "Extended & Custom Models"] >>

\* a mutation of categorizeModels: the if-chain without its else branches
categorizeModels_noElse(ms) ==
    LET categories ==
            [k \in 1..Len(categoryTable) |->
                [key |-> categoryTable[k].range,
                 range |-> categoryTable[k].range,
                 description |-> categoryTable[k].description,
                 models |-> SelectSeq(ms, LAMBDA m :
                                IF k < 10 THEN m.id < 100 * k ELSE m.id >= 900)]]
    IN  SelectSeq(categories, LAMBDA c : Len(c.models) > 0)

\* a mutation of categorizeModels: each model put at the front of its bucket
categorizeModels_unshift(ms) ==
    LET reversed == [i \in 1..Len(ms) |-> ms[Len(ms) + 1 - i]]
        categories ==
            [k \in 1..Len(categoryTable) |->
                [key |-> categoryTable[k].range,
                 range |-> categoryTable[k].range,
                 description |-> categoryTable[k].description,
                 models |-> SelectSeq(reversed, LAMBDA m :
                                bucketOf(m.id) = categoryTable[k].range)]]
    IN  SelectSeq(categories, LAMBDA c : Len(c.models) > 0)

\* a mutation of categorizeModels: the empty categories are not filtered out
categorizeModels_keepEmpty(ms) ==
    [k \in 1..Len(categoryTable) |->
        [key |-> categoryTable[k].range,
         range |-> categoryTable[k].range,
         description |-> categoryTable[k].description,
         models |-> SelectSeq(ms, LAMBDA m :
                        bucketOf(m.id) = categoryTable[k].range)]]

\* the returned record as the sequence of its entries, in key order
categorizeModels(ms) ==
    LET categories ==
            [k \in 1..Len(categoryTable) |->
                [key |-> categoryTable[k].range,
                 range |-> categoryTable[k].range,
                 description |-> categoryTable[k].description,
                 models |-> SelectSeq(ms, LAMBDA m :
                                bucketOf(m.id) = categoryTable[k].range)]]
    IN  SelectSeq(categories, LAMBDA c : Len(c.models) > 0)

----------------------------------------------------------------------------
(* ModelList.tsx: loadModels, over getModelList and getAllModelsWithMetadata *)

MaxFiles == 3

ListFailed == "Failed to load models from GitHub"

\* entries of the repository directory
RawNames ==
    { <<"m", "o", "d", "e", "l", "_", "1", ".", "j", "s", "o", "n">>,
      <<"m", "o", "d", "e", "l", "_", "1", "2", ".", "j", "s", "o", "n">>,
      <<"a", ".", "j", "s", "o", "n", "b", ".", "j", "s", "o", "n">>,
      <<"m", "o", "d", "e", "l", "_", "5", "_", "v", ".", "j", "s", "o", "n">>,
      <<"R", "E", "A", "D", "M", "E", ".", "m", "d">> }

\* directory listings: no name twice
RawListings ==
    {l \in SeqsUpTo(RawNames, MaxFiles) :
        \A i, j \in DOMAIN l : i # j => l[i] # l[j]}

CatGroup == [name |-> <<"G">>, label |-> <<"L", "b">>, points |-> <<>>]

\* the documents the repository may serve for a listing entry
CatDocs ==
    { [id |-> 1, group |-> CatGroup],
      [id |-> 12, label |-> <<"L">>, desc |-> <<"d">>, group |-> CatGroup],
      [group |-> [name |-> <<"G">>, points |-> <<>>]],
      [id |-> 7],
      JsonNull }

CatResponses(filename) == {Rejected(filename)} \cup {Resolved(d) : d \in CatDocs}

\* the useEffect on mount, or "Try Again" (ModelList.tsx:19-21, 37-39, 96)
LoadModels ==
    /\ cpc \in {"mounted", "failed"}
    /\ cpc' = "listing"
    /\ listLoading' = TRUE
    /\ listError' = ""
    /\ UNCHANGED <<files, responses, models, categorizedModels, appVars, viewVars>>

\* getModelList resolves (lines 15-23); every per-file fetch is issued (line 36)
ListingOk(raw) ==
    /\ cpc = "listing"
    /\ files' = SelectSeq(raw, LAMBDA n : endsWith(n, DotJson))
    /\ responses' = [i \in 1..Len(files') |-> Pending]
    /\ cpc' = "fanout"
    /\ UNCHANGED <<models, categorizedModels, listLoading, listError, appVars, viewVars>>

\* a mutation of ListingFails: loadModels without its finally block
ListingFails_keepsLoading ==
    /\ cpc = "listing"
    /\ cpc' = "failed"
    /\ listError' = ListFailed
    /\ UNCHANGED <<listLoading, files, responses, models, categorizedModels,
                   appVars, viewVars>>

\* getModelList throws (lines 24-27), getAllModelsWithMetadata rethrows
\* (lines 56-59), loadModels catches (ModelList.tsx:52-56)
ListingFails ==
    /\ cpc = "listing"
    /\ cpc' = "failed"
    /\ listError' = ListFailed
    /\ listLoading' = FALSE
    /\ UNCHANGED <<files, responses, models, categorizedModels, appVars, viewVars>>

\* getModel settles for one listing entry
ItemSettles(i, r) ==
    /\ cpc = "fanout"
    /\ i \in DOMAIN responses
    /\ responses[i] = Pending
    /\ responses' = [responses EXCEPT ![i] = r]
    /\ UNCHANGED <<cpc, files, models, categorizedModels, listLoading, listError,
                   appVars, viewVars>>

\* a mutation of JoinAndShow: the result is taken as soon as one entry has
\* failed, the entries still outstanding counted as failed
JoinAndShow_failFast ==
    /\ cpc = "fanout"
    /\ \/ \A i \in DOMAIN responses : responses[i] # Pending
       \/ \E i \in DOMAIN responses : responses[i] # Pending /\ ~responses[i].ok
    /\ models' = allModelsWithMetadata(files,
                     [i \in DOMAIN responses |->
                         IF responses[i] = Pending THEN Rejected(files[i])
                         ELSE responses[i]])
    /\ categorizedModels' = categorizeModels(models')
    /\ listLoading' = FALSE
    /\ cpc' = "done"
    /\ UNCHANGED <<files, responses, listError, appVars, viewVars>>

\* Promise.all resolves once every per-file promise has (line 50); loadModels
\* categorizes and stores the result (ModelList.tsx:42-46, 55)
JoinAndShow ==
    /\ cpc = "fanout"
    /\ \A i \in DOMAIN responses : responses[i] # Pending
    /\ models' = allModelsWithMetadata(files, responses)
    /\ categorizedModels' = categorizeModels(models')
    /\ listLoading' = FALSE
    /\ cpc' = "done"
    /\ UNCHANGED <<files, responses, listError, appVars, viewVars>>

\* ModelList mounted: useState defaults (ModelList.tsx:11-17)
InitCatalog ==
    /\ cpc = "mounted"
    /\ files = <<>>
    /\ responses = <<>>
    /\ models = <<>>
    /\ categorizedModels = <<>>
    /\ listLoading = TRUE
    /\ listError = ""
    /\ model = NoModel
    /\ selectedModelInfo = None
    /\ error = ""
    /\ isLoading = FALSE
    /\ calls = {}
    /\ nreq = 0
    /\ searchTerm = <<>>
    /\ expandedNodes = {"root"}

NextCatalog ==
    \/ LoadModels
    \/ \E raw \in RawListings : ListingOk(raw)
    \/ ListingFails
    \/ \E i \in DOMAIN responses : \E r \in CatResponses(files[i]) : ItemSettles(i, r)
    \/ JoinAndShow

SpecCatalog == InitCatalog /\ [][NextCatalog]_vars

----------------------------------------------------------------------------
(* categorizeModels applied to arbitrary descriptor sequences *)

MaxCatLen == 2

descriptor(id, filename) ==
    [id |-> id, name |-> replaceFirst(filename, DotJson), label |-> None,
     desc |-> None, filename |-> filename]

BoundaryIds ==
    {0, 1, 99, 900, 901, 70000}
    \cup {100 * k : k \in 1..8} \cup {100 * k + 99 : k \in 1..8}

CatDescriptors ==
    {descriptor(n, ModelUnderscore \o Digits(n) \o DotJson) : n \in BoundaryIds}
    \cup {descriptor(100, <<"a", ".", "j", "s", "o", "n">>),
          descriptor(-1, <<"b", ".", "j", "s", "o", "n">>)}

InitCategorize ==
    /\ cpc = "input"
    /\ models \in SeqsUpTo(CatDescriptors, MaxCatLen)
    /\ categorizedModels = <<>>
    /\ files = <<>>
    /\ responses = <<>>
    /\ listLoading = TRUE
    /\ listError = ""
    /\ model = NoModel
    /\ selectedModelInfo = None
    /\ error = ""
    /\ isLoading = FALSE
    /\ calls = {}
    /\ nreq = 0
    /\ searchTerm = <<>>
    /\ expandedNodes = {"root"}

\* ModelList.tsx:43
Categorize ==
    /\ cpc = "input"
    /\ categorizedModels' = categorizeModels(models)
    /\ cpc' = "categorized"
    /\ UNCHANGED <<files, responses, models, listLoading, listError, appVars, viewVars>>

NextCategorize == Categorize

SpecCategorize == InitCategorize /\ [][NextCategorize]_vars

----------------------------------------------------------------------------
(* App.tsx: handleModelSelect, handleReset *)

InvalidFormat ==
    "Invalid SunSpec model format. Missing required \"id\" or \"group\" properties."
NullDeref == "Cannot read properties of null (reading 'id')"

MaxSelects == 2

AppGroup == [name |-> <<"G">>, points |-> <<[name |-> <<"V", "o">>]>>]

\* the documents the repository may serve
AppDocs ==
    { [id |-> 1, group |-> AppGroup],
      [id |-> 2, group |-> [name |-> <<"A">>, points |-> <<>>,
                            groups |-> <<AppGroup>>]],
      [id |-> 0, group |-> AppGroup],
      [group |-> AppGroup],
      [id |-> 1],
      JsonNull }

AppTerms == { <<>>, <<"v", "O">> }

\* the listing and the documents the catalog on screen was loaded from
AppFiles ==
    << <<"m", "o", "d", "e", "l", "_", "2", ".", "j", "s", "o", "n">>,
       <<"m", "o", "d", "e", "l", "_", "1", ".", "j", "s", "o", "n">> >>

AppLoaded ==
    << Resolved([id |-> 2, group |-> [name |-> <<"A">>, points |-> <<>>,
                                      groups |-> <<AppGroup>>]]),
       Resolved([id |-> 1, group |-> AppGroup]) >>

\* the outcome of the body of the try block for a settled getModel:
\* the model to display, or the message of the error thrown (lines 20-27)
tryBody(resp) ==
    IF ~resp.ok THEN [thrown |-> TRUE, message |-> resp.message]
    ELSE IF resp.doc = JsonNull THEN [thrown |-> TRUE, message |-> NullDeref]
    ELSE IF falsyNumber(Field(resp.doc, "id")) \/ "group" \notin DOMAIN resp.doc
         THEN [thrown |-> TRUE, message |-> InvalidFormat]
         ELSE [thrown |-> FALSE, model |-> resp.doc]

\* a click on a catalog card; ModelList is rendered while no model is shown
\* (lines 57-59), the loading overlay does not disable its handlers
\* (lines 14-20, up to the await)
Select(info) ==
    /\ model = NoModel
    /\ info \in Range(models)
    /\ nreq < MaxSelects
    /\ isLoading' = TRUE
    /\ error' = ""
    /\ selectedModelInfo' = Some(info)
    /\ nreq' = nreq + 1
    /\ calls' = calls \cup {[req |-> nreq + 1, info |-> info,
                             resp |-> Pending, shown |-> model]}
    /\ UNCHANGED <<model, viewVars, catVars>>

\* getModel settles for one outstanding selection
Respond(c, r) ==
    /\ c \in calls
    /\ c.resp = Pending
    /\ calls' = (calls \ {c}) \cup {[c EXCEPT !.resp = r]}
    /\ UNCHANGED <<model, selectedModelInfo, error, isLoading, nreq, viewVars, catVars>>

\* a mutation of Resume: the loading flag cleared on success only, as without
\* the finally block
Resume_noFinally(c) ==
    /\ c \in calls
    /\ c.resp # Pending
    /\ LET out == tryBody(c.resp)
       IN  IF out.thrown
           THEN /\ error' = out.message
                /\ selectedModelInfo' = None
                /\ UNCHANGED <<model, isLoading>>
           ELSE /\ model' = out.model
                /\ isLoading' = FALSE
                /\ UNCHANGED <<error, selectedModelInfo>>
    /\ calls' = calls \ {c}
    /\ UNCHANGED <<nreq, viewVars, catVars>>

\* handleModelSelect resumes after the await (lines 20-33)
Resume(c) ==
    /\ c \in calls
    /\ c.resp # Pending
    /\ LET out == tryBody(c.resp)
       IN  IF out.thrown
           THEN /\ error' = out.message
                /\ selectedModelInfo' = None
                /\ UNCHANGED model
           ELSE /\ model' = out.model
                /\ UNCHANGED <<error, selectedModelInfo>>
    /\ isLoading' = FALSE
    /\ calls' = calls \ {c}
    \* a TreeView already on screen keeps its state when the prop changes;
    \* one that mounts now starts from the useState defaults
    /\ UNCHANGED <<nreq, viewVars, catVars>>

\* "Back to Model List" (lines 36-40, 65-71); TreeView unmounts
handleReset ==
    /\ model # NoModel
    /\ model' = NoModel
    /\ selectedModelInfo' = None
    /\ error' = ""
    /\ searchTerm' = <<>>
    /\ expandedNodes' = {"root"}
    /\ UNCHANGED <<isLoading, calls, nreq, catVars>>

Init ==
    /\ model = NoModel
    /\ selectedModelInfo = None
    /\ error = ""
    /\ isLoading = FALSE
    /\ calls = {}
    /\ nreq = 0
    /\ searchTerm = <<>>
    /\ expandedNodes = {"root"}
    /\ cpc = "done"
    /\ files = AppFiles
    /\ responses = AppLoaded
    /\ models = allModelsWithMetadata(AppFiles, AppLoaded)
    /\ categorizedModels = categorizeModels(models)
    /\ listLoading = FALSE
    /\ listError = ""

Responses(c) == {Rejected(c.info.filename)} \cup {Resolved(d) : d \in AppDocs}

Next ==
    \/ \E info \in Range(models) : Select(info)
    \/ \E c \in calls : \E r \in Responses(c) : Respond(c, r)
    \/ \E c \in calls : Resume(c)
    \/ handleReset
    \/ \E t \in AppTerms : SetSearchTerm(t)
    \/ \E row \in Range(rendered) : ToggleNode(row)

Spec == Init /\ [][Next]_vars

\* the selection flow alone, with every issued fetch settling in the end and
\* every settled fetch resuming its handler (the event loop runs the
\* continuation of a settled promise)
NextSelection ==
    \/ \E info \in Range(models) : Select(info)
    \/ \E c \in calls : \E r \in Responses(c) : Respond(c, r)
    \/ \E c \in calls : Resume(c)
    \/ handleReset

SpecSelection ==
    /\ Init
    /\ [][NextSelection]_vars
    /\ WF_vars(\E c \in calls : \E r \in Responses(c) : Respond(c, r))
    /\ WF_vars(\E c \in calls : Resume(c))

----------------------------------------------------------------------------
(* Properties of the tree view, checked under SpecTree *)

\* the nodes of a tree, parents before children, siblings in order
RECURSIVE preorder(_)
preorder(node) ==
    <<node>> \o Flatten([i \in 1..Len(node.children) |-> preorder(node.children[i])])

idsOf(nodes) == [i \in 1..Len(nodes) |-> nodes[i].id]

\* the points and groups of the source hierarchy under a group, the group included
RECURSIVE entities(_)
entities(g) ==
    <<g>>
    \o (IF "groups" \in DOMAIN g
        THEN Flatten([i \in 1..Len(g.groups) |-> entities(g.groups[i])])
        ELSE <<>>)
    \o (IF "points" \in DOMAIN g THEN g.points ELSE <<>>)

occurrences(x, s) == Cardinality({i \in DOMAIN s : s[i] = x})

\* C2: while a search term is active, every node of the filtered tree that
\* has a kept child is drawn with its children visible, whatever
\* expandedNodes holds, so every node of the filtered tree is on screen.
C2_SearchShowsKeptChildren ==
    (mounted /\ searchTerm # <<>> /\ filteredTree # NoNode) =>
        LET kept == preorder(filteredTree)
        IN  /\ \A i \in DOMAIN kept :
                 Len(kept[i].children) > 0 =>
                     showsChildren(kept[i], expandedNodes)
            /\ Range(idsOf(kept)) = {r.id : r \in Range(rendered)}

\* C3: for a non-empty term, filter keeps exactly the nodes that match
\* themselves or have a matching descendant, kept children in their original
\* order; the result is absent iff nothing in the tree matches; every leaf of
\* the result matches itself.
C3_FilterKeepsMatchesAndAncestors ==
    (mounted /\ searchTerm # <<>>) =>
        LET all == preorder(buildTree)
            selfMatches(n) == matchesSearch(n, searchTerm)
            hasMatch(n) == \E d \in Range(preorder(n)) : selfMatches(d)
            original(id) == CHOOSE n \in Range(all) : n.id = id
        IN  IF filteredTree = NoNode
            THEN ~hasMatch(buildTree)
            ELSE LET kept == preorder(filteredTree)
                 IN  /\ idsOf(kept) = idsOf(SelectSeq(all, hasMatch))
                     /\ \A k \in Range(kept) :
                          /\ idsOf(k.children)
                               = idsOf(SelectSeq(original(k.id).children, hasMatch))
                          /\ Len(k.children) = 0 => selfMatches(k)

\* a search that prunes a sibling and keeps an ancestor that does not match itself
C3_Witness ==
    /\ mounted /\ searchTerm # <<>> /\ filteredTree # NoNode
    /\ Len(preorder(filteredTree)) < Len(preorder(buildTree))
    /\ \E k \in Range(preorder(filteredTree)) :
          /\ ~matchesSearch(k, searchTerm)
          /\ Len(k.children) > 0
          /\ Len(k.children) < Len((CHOOSE n \in Range(preorder(buildTree)) : n.id = k.id).children)

\* C6: build makes one node for the root and exactly one for every point and
\* every group reachable from model.group, and no two nodes share an id.
C6_OneNodePerEntity ==
    mounted =>
        LET nodes == preorder(buildTree)
            src == entities(model.group)
            made == [i \in 1..(Len(nodes) - 1) |-> nodes[i + 1].data]
        IN  /\ nodes[1].type = "model" /\ nodes[1].data = model
            /\ \A i \in 2..Len(nodes) : nodes[i].type \in {"group", "point"}
            /\ Len(made) = Len(src)
            /\ \A e \in Range(src) \cup Range(made) :
                 occurrences(e, made) = occurrences(e, src)
            /\ Cardinality(Range(idsOf(nodes))) = Len(nodes)

\* a model with points and nested groups at the same level
C6_Witness ==
    /\ mounted
    /\ Len(model.group.points) = MaxPoints
    /\ Len(model.group.groups) = MaxGroups
    /\ Len(preorder(buildTree)) >= 5

\* filter applied to a result of filter: nothing is left to filter when the
\* first result is absent
again(result, term) == IF result = NoNode THEN NoNode ELSE filter(result, term)

\* C13: for every tree and every term, filtering the result of the filter
\* again with the same term gives a tree equal to that result in nodes, order
\* and expanded flags, and an absent result stays absent.
C13_FilterIdempotent ==
    mounted =>
        LET once == filter(buildTree, searchTerm)
        IN  again(once, searchTerm) = once

\* a search whose result was pruned and forced open, on a tree that another
\* term of the pool leaves nothing of
C13_Witness ==
    /\ mounted /\ searchTerm # <<>> /\ filteredTree # NoNode
    /\ Len(preorder(filteredTree)) < Len(preorder(buildTree))
    /\ \E n \in Range(preorder(buildTree)) : Len(n.children) > 0 /\ ~n.isExpanded
    /\ \E t \in Terms : filter(buildTree, t) = NoNode

\* C14: with an empty search term the filter returns the built tree as it
\* is: the same nodes and children, every expanded flag as build set it from
\* expandedNodes.
C14_EmptyTermIsIdentity ==
    mounted =>
        /\ filter(buildTree, <<>>) = buildTree
        /\ searchTerm = <<>> =>
              /\ filteredTree = buildTree
              /\ \A n \in Range(preorder(filteredTree)) :
                    n.isExpanded = (n.id \in expandedNodes)

\* no search term, a collapsed group beside an expanded one
C14_Witness ==
    /\ mounted /\ searchTerm = <<>>
    /\ \E n \in Range(preorder(filteredTree)) : Len(n.children) > 0 /\ ~n.isExpanded
    /\ \E n \in Range(preorder(filteredTree)) :
          n.id # "root" /\ Len(n.children) > 0 /\ n.isExpanded

\* a node without its expanded flag, and so for its descendants
RECURSIVE shape(_)
shape(node) ==
    [id |-> node.id, name |-> node.name, label |-> node.label,
     type |-> node.type, data |-> node.data, level |-> node.level,
     children |-> [i \in 1..Len(node.children) |-> shape(node.children[i])]]

\* expansion sets to rebuild under: none expanded, all expanded, and the
\* current set with one node toggled
otherExpansions ==
    LET parents == {n.id : n \in {m \in Range(preorder(buildTree)) : Len(m.children) > 0}}
    IN  {{}, parents} \cup {toggle(expandedNodes, id) : id \in parents}

\* C7: for a fixed model, the trees built under two expansion sets have the
\* same shape, ids, names, kinds, depths and child order; each node's
\* expanded flag is membership of its id in the set used.
C7_RebuildChangesOnlyExpanded ==
    mounted =>
        \A S2 \in otherExpansions :
            LET t1 == build(model, expandedNodes)
                t2 == build(model, S2)
            IN  /\ shape(t1) = shape(t2)
                /\ \A n \in Range(preorder(t1)) : n.isExpanded = (n.id \in expandedNodes)
                /\ \A n \in Range(preorder(t2)) : n.isExpanded = (n.id \in S2)

\* a tree rebuilt after toggles, some nodes expanded and some collapsed
C7_Witness ==
    /\ mounted
    /\ expandedNodes # {"root"}
    /\ \E n \in Range(preorder(buildTree)) : Len(n.children) > 0 /\ n.isExpanded
    /\ \E n \in Range(preorder(buildTree)) : Len(n.children) > 0 /\ ~n.isExpanded

MaxToggles == 2

\* the ids a click can toggle in the tree on screen
toggleable == {n.id : n \in {m \in Range(preorder(buildTree)) : Len(m.children) > 0}}

RECURSIVE toggleAll(_, _)
toggleAll(S, ids) ==
    IF ids = <<>> THEN S ELSE toggleAll(toggle(S, Head(ids)), Tail(ids))

\* toggle as a function, from the expansion set of the current state
toggleLaws ==
    mounted =>
        LET ids == toggleable
            all == ids \cup expandedNodes
        IN  /\ \A id \in ids :
                  LET once == toggle(expandedNodes, id)
                  IN  /\ (id \in once) = (id \notin expandedNodes)
                      /\ \A other \in all \ {id} :
                            (other \in once) = (other \in expandedNodes)
                      /\ once \subseteq expandedNodes \cup {id}
                      /\ toggle(once, id) = expandedNodes
            /\ \A seq \in SeqsUpTo(ids, MaxToggles) :
                  LET after == toggleAll(expandedNodes, seq)
                  IN  \A id \in all :
                          (id \in after)
                              = IF occurrences(id, seq) % 2 = 0
                                THEN id \in expandedNodes
                                ELSE id \notin expandedNodes

\* a click changes the membership of one id and of no other
toggleStep ==
    expandedNodes' # expandedNodes =>
        \E id \in (expandedNodes \ expandedNodes') \cup (expandedNodes' \ expandedNodes) :
            /\ id \in toggleable
            /\ expandedNodes' \ {id} = expandedNodes \ {id}

\* C19: toggle(id) flips the membership of id in the expansion set and
\* leaves every other id as it was; two toggles of the same id restore the
\* set; after a sequence of toggles an id is a member iff it started as a
\* member and was toggled an even number of times, or started absent and was
\* toggled an odd number of times.
C19_ToggleFlipsOneId == []toggleLaws /\ [][toggleStep]_vars

\* after clicks: the root collapsed and a nested group expanded
C19_Witness ==
    /\ mounted
    /\ "root" \notin expandedNodes
    /\ \E id \in expandedNodes : id \in toggleable
    /\ Cardinality(toggleable) >= 3

\* the points and the nested groups of a group of the source hierarchy
pointsOf(g) == IF "points" \in DOMAIN g THEN g.points ELSE <<>>
groupsOf(g) == IF "groups" \in DOMAIN g THEN g.groups ELSE <<>>

\* C22: the children of a group node with id P are all points of the group in
\* source order, with ids P_point_0, P_point_1, ..., followed by all nested
\* groups in source order, with ids P_group_0, P_group_1, ...; no group child
\* precedes a point child. The root has id "root" and at most one child, the
\* node of model.group with id "root_group".
C22_PointsThenGroups ==
    mounted =>
        /\ buildTree.id = "root"
        /\ Len(buildTree.children) <= 1
        /\ Len(buildTree.children) = (IF "group" \in DOMAIN model THEN 1 ELSE 0)
        /\ \A c \in Range(buildTree.children) :
              c.id = "root_group" /\ c.type = "group" /\ c.data = model.group
        /\ \A n \in Range(preorder(buildTree)) :
              /\ n.type = "point" => n.children = <<>>
              /\ n.type = "group" =>
                    LET ps == pointsOf(n.data)
                        gs == groupsOf(n.data)
                    IN  /\ Len(n.children) = Len(ps) + Len(gs)
                        /\ \A i \in DOMAIN ps :
                              /\ n.children[i].type = "point"
                              /\ n.children[i].data = ps[i]
                              /\ n.children[i].id
                                    = n.id \o "_point_" \o ToString(i - 1)
                        /\ \A j \in DOMAIN gs :
                              /\ n.children[Len(ps) + j].type = "group"
                              /\ n.children[Len(ps) + j].data = gs[j]
                              /\ n.children[Len(ps) + j].id
                                    = n.id \o "_group_" \o ToString(j - 1)
                        /\ \A i, j \in DOMAIN n.children :
                              (n.children[i].type = "group"
                                  /\ n.children[j].type = "point") => j < i

\* a group with two points and a nested group that has children of its own
C22_Witness ==
    /\ mounted
    /\ Len(model.group.points) = 2
    /\ Len(model.group.groups) = 1
    /\ model.group.points[1] # model.group.points[2]
    /\ \E n \in Range(preorder(buildTree)) :
          n.id = "root_group_group_0" /\ Len(n.children) > 0

----------------------------------------------------------------------------
(* Properties of the selection flow, checked under Spec *)

appState == <<model, selectedModelInfo, error, isLoading>>

\* the selection c finishes in this step
finishes(c) ==
    c \in calls /\ c.resp # Pending /\ \A d \in calls' : d.req # c.req

\* C1: when a selection finishes after a newer selection was made, its
\* result is discarded: the displayed model, the selected descriptor, the
\* error message and the loading flag stay as they are.
C1_StaleResultDiscarded ==
    [][\A c \in calls :
          (finishes(c) /\ c.req < nreq) => UNCHANGED appState]_vars

\* C8: a selection that ends in a validation or transport error leaves the
\* displayed model as it was when that selection started.
C8_FailedSelectionKeepsModel ==
    [][\A c \in calls :
          (finishes(c) /\ tryBody(c.resp).thrown) => model' = c.shown]_vars

transportMessages == {Rejected(info.filename).message : info \in Range(models)}

\* C9: a fetched document is rejected, with an error that is not the
\* transport error, iff it lacks id or lacks group; a document that carries
\* an id (any non-negative integer) and a group becomes the displayed model.
C9_RejectedIffLacksIdOrGroup ==
    [][\A c \in calls :
          (finishes(c) /\ c.resp.ok) =>
              LET doc == c.resp.doc
                  lacks == "id" \notin DOMAIN doc \/ "group" \notin DOMAIN doc
              IN  IF lacks
                  THEN /\ error' \notin {""} \cup transportMessages
                       /\ model' = model
                  ELSE /\ model' = doc
                       /\ error' = error]_vars

\* C20: whenever a newly selected model becomes the displayed model, its
\* tree is first built with the expansion set {"root"}: nothing of the
\* expansion state of a model displayed before carries over, and a reset
\* discards it.
C20_FreshExpansionPerModel ==
    [][/\ (model' # model /\ model' # NoModel) => expandedNodes' = {"root"}
       /\ (model' # model /\ model' = NoModel) => expandedNodes' = {"root"}]_vars

\* the state of the host selection flow, as the screen shows it
phase ==
    IF isLoading THEN "Loading"
    ELSE IF model # NoModel THEN "Viewing"
    ELSE IF error # "" THEN "Error"
    ELSE "Idle"

allowedTransitions ==
    { <<"Idle", "Loading">>, <<"Loading", "Viewing">>, <<"Loading", "Error">>,
      <<"Error", "Idle">>, <<"Viewing", "Idle">> }

\* C24: the selection flow takes only the transitions Idle -> Loading,
\* Loading -> Viewing, Loading -> Error, Error -> Idle and Viewing -> Idle;
\* Error is left only to Idle and no selection starts in Loading or Viewing.
C24_OnlyListedTransitions ==
    [][/\ phase' # phase => <<phase, phase'>> \in allowedTransitions
       /\ nreq' # nreq => phase = "Idle"]_vars

\* C25: the loading flag is true whenever the fetch of at least one
\* selection is outstanding.
C25_LoadingWhileFetchOutstanding ==
    (\E c \in calls : c.resp = Pending) => isLoading

\* C26: if every issued fetch settles, every state with isLoading true is
\* followed by a state with isLoading false in which a model is displayed or
\* a non-empty error message is set.
C26_LoadingEnds ==
    isLoading ~> (~isLoading /\ (model # NoModel \/ error # ""))

\* a selection has left Loading with an error, another with a model
C26_Witness ==
    /\ nreq = MaxSelects
    /\ calls = {}
    /\ ~isLoading
    /\ model # NoModel
    /\ error # ""

\* the ids of the nodes that have children in the tree of the displayed model
parentIds == {n.id : n \in {m \in Range(preorder(buildTree)) : Len(m.children) > 0}}

\* C27: every id in the expansion set is "root" or the id of a node that has
\* children in the tree built from the displayed model, and a change of the
\* search term leaves the expansion set as it is.
C27_ExpansionIdsAreParents ==
    /\ [](mounted => expandedNodes \subseteq {"root"} \cup parentIds)
    /\ [][(mounted /\ mounted' /\ searchTerm' # searchTerm)
              => expandedNodes' = expandedNodes]_vars

----------------------------------------------------------------------------
(* Properties of the catalog assembly, checked under SpecCatalog *)

\* the fetch of entry i failed, or extractModelInfo threw on its document
itemFailed(i) == ~responses[i].ok \/ responses[i].doc = JsonNull

withFilename(ms, f) == {k \in DOMAIN ms : ms[k].filename = f}

\* C4: whichever listing entries fail in their fetch or their extraction,
\* getAllModelsWithMetadata does not raise and returns exactly one
\* descriptor for each other entry and none for the failed ones.
C4_PartialSuccess ==
    /\ cpc = "done" =>
          /\ listError = ""
          /\ \A i \in DOMAIN files :
                Cardinality(withFilename(models, files[i]))
                    = IF itemFailed(i) THEN 0 ELSE 1
          /\ Len(models) = Cardinality({i \in DOMAIN files : ~itemFailed(i)})
    /\ cpc = "failed" => files = <<>>

\* a catalog assembled with a failed fetch, a failed extraction and a success
C4_Witness ==
    /\ cpc = "done"
    /\ Len(files) = 3
    /\ Len(models) = 1
    /\ \E i \in DOMAIN files : ~responses[i].ok
    /\ \E i \in DOMAIN files : responses[i].ok /\ responses[i].doc = JsonNull

listingIndex(f) == CHOOSE i \in DOMAIN files : files[i] = f

\* C5: the returned sequence is in ascending id order, and descriptors with
\* equal ids are in the order of their entries in the listing, in whatever
\* order the fetches settled.
C5_SortedStable ==
    cpc = "done" =>
        \A i, j \in DOMAIN models :
            i < j =>
                /\ models[i].id <= models[j].id
                /\ models[i].id = models[j].id =>
                      listingIndex(models[i].filename)
                          < listingIndex(models[j].filename)

\* three descriptors: the first listing entry sorted last, behind two equal ids
C5_Witness ==
    /\ cpc = "done"
    /\ Len(models) = 3
    /\ models[1].id = models[2].id
    /\ models[2].id < models[3].id
    /\ models[3].filename = files[1]

\* the descriptor that the catalog holds for listing entry i
descriptorOf(i) == models[CHOOSE k \in DOMAIN models : models[k].filename = files[i]]

\* the number written in decimal by a sequence of digits
RECURSIVE decimal(_)
decimal(ds) ==
    IF ds = <<>> THEN 0
    ELSE 10 * decimal(SubSeq(ds, 1, Len(ds) - 1))
         + (CHOOSE v \in 0..9 : ToString(v) = ds[Len(ds)])

\* the digits of the first place in name where "model_", one or more digits
\* and then the text after occur; None when there is no such place
embedded(name, after) ==
    LET lead == <<"m", "o", "d", "e", "l", "_">>
        runs == {<<i, j>> \in (1..Len(name)) \X (1..Len(name)) :
                    /\ i + 6 <= j
                    /\ SubSeq(name, i, i + 5) = lead
                    /\ \A k \in (i + 6)..j : IsDigit(name[k])
                    /\ (j = Len(name) \/ ~IsDigit(name[j + 1]))
                    /\ SubSeq(name, j + 1, j + Len(after)) = after}
    IN  IF runs = {} THEN None
        ELSE LET r == CHOOSE x \in runs : \A y \in runs : x[1] <= y[1]
             IN  Some(SubSeq(name, r[1] + 6, r[2]))

\* the id resolution order, for a pattern that ends in the text after
resolvedId(name, doc, after) ==
    IF embedded(name, after).some THEN decimal(embedded(name, after).val)
    ELSE IF "id" \in DOMAIN doc THEN doc.id
    ELSE 0

\* C15, as stated: the id of a descriptor is the integer after "model_" when
\* the file name holds model_<digits>, else the id of the document when it
\* has one, else 0.
C15_IdFromNameThenPayload ==
    cpc = "done" =>
        \A i \in DOMAIN files :
            ~itemFailed(i) =>
                descriptorOf(i).id = resolvedId(files[i], responses[i].doc, <<>>)

\* C15, amended: the id of a descriptor is the integer after "model_" when
\* the file name holds model_<digits>.json, else the id of the document when
\* it has one, else 0; the file name wins over a different id in the document.
C15_IdFromJsonNameThenPayload ==
    cpc = "done" =>
        \A i \in DOMAIN files :
            ~itemFailed(i) =>
                descriptorOf(i).id = resolvedId(files[i], responses[i].doc, DotJson)

\* a catalog with an id taken from the name against the document, one taken
\* from the document, and one defaulted to 0
C15_Witness ==
    /\ cpc = "done"
    /\ Len(models) = 3
    /\ \E i \in DOMAIN files :
          /\ ~itemFailed(i) /\ embedded(files[i], DotJson).some
          /\ "id" \in DOMAIN responses[i].doc
          /\ responses[i].doc.id # descriptorOf(i).id
    /\ \E i \in DOMAIN files :
          /\ ~itemFailed(i) /\ ~embedded(files[i], DotJson).some
          /\ "id" \in DOMAIN responses[i].doc
          /\ descriptorOf(i).id = responses[i].doc.id
    /\ \E i \in DOMAIN files :
          /\ ~itemFailed(i) /\ ~embedded(files[i], DotJson).some
          /\ "id" \notin DOMAIN responses[i].doc
          /\ descriptorOf(i).id = 0

\* C16: an entry whose fetched document is not a record with a group is a
\* per-item failure: the catalog holds no descriptor for it.
C16_NoGroupIsItemFailure ==
    cpc = "done" =>
        \A i \in DOMAIN files :
            (/\ responses[i].ok
             /\ (responses[i].doc = JsonNull \/ "group" \notin DOMAIN responses[i].doc))
                => withFilename(models, files[i]) = {}

settled(i) == responses[i] # Pending

\* the states of the fan-out: nothing is returned while a fetch is
\* outstanding, and an outstanding fetch can settle with a document whatever
\* happened to its siblings
fanoutState ==
    /\ cpc = "done" => \A i \in DOMAIN files : settled(i)
    /\ cpc = "fanout" =>
          /\ Len(responses) = Len(files)
          /\ models = <<>> /\ categorizedModels = <<>>
          /\ listLoading /\ listError = ""
          /\ \A i \in DOMAIN files :
                ~settled(i) =>
                    /\ ENABLED ItemSettles(i, Resolved([id |-> 1, group |-> CatGroup]))
                    /\ ~ENABLED JoinAndShow

\* a catalog assembled after one fetch failed and a sibling then succeeded
C17_Witness ==
    /\ cpc = "done"
    /\ Len(files) >= 2
    /\ ~responses[1].ok
    /\ \E i \in DOMAIN files : i > 1 /\ ~itemFailed(i)
    /\ Len(models) >= 1

\* the steps of the fan-out: a settling fetch changes no other entry, and
\* the result appears in a step that starts with every fetch settled
fanoutStep ==
       /\ (cpc = "fanout" /\ cpc' = "fanout") =>
             \E i \in DOMAIN responses :
                 /\ ~settled(i)
                 /\ \A j \in DOMAIN responses : j # i => responses'[j] = responses[j]
       /\ (cpc = "fanout" /\ cpc' # "fanout") =>
             /\ cpc' = "done"
             /\ \A i \in DOMAIN responses : settled(i)
             /\ responses' = responses

\* C17: the assembly returns only when every fetch it issued has settled,
\* never with a partial result while a fetch is outstanding; the failure of
\* one fetch leaves its siblings as they are and able to complete.
C17_JoinAfterAllSettle == []fanoutState /\ [][fanoutStep]_vars

\* C18: when the listing fails the assembly fails as a whole: no fetch was
\* issued, no descriptor is returned, and the catalog view shows its error
\* with loading cleared; the error state comes from a failed listing only.
C18_ListingFailureIsWholesale ==
    /\ cpc = "failed" =>
          /\ listError = ListFailed
          /\ ~listLoading
          /\ files = <<>> /\ responses = <<>>
          /\ models = <<>> /\ categorizedModels = <<>>
    /\ listError # "" => cpc = "failed"

\* the listing has failed
C18_Witness ==
    /\ cpc = "failed"
    /\ listError = ListFailed
    /\ ENABLED LoadModels

\* a name with its trailing ".json" removed, unchanged without that suffix
stripJsonSuffix(name) ==
    IF Len(name) >= 5 /\ SubSeq(name, Len(name) - 4, Len(name)) = <<".", "j", "s", "o", "n">>
    THEN SubSeq(name, 1, Len(name) - 5)
    ELSE name

\* C21: the name of a descriptor is its source name with only a trailing
\* ".json" removed; a ".json" that is not at the end is kept.
C21_NameStripsTrailingJson ==
    cpc = "done" =>
        \A k \in DOMAIN models :
            models[k].name = stripJsonSuffix(models[k].filename)

----------------------------------------------------------------------------
(* Properties of categorizeModels, checked under SpecCategorize *)

\* the bucket table of the specification: lower bound inclusive, upper exclusive
expectedKey(n) ==
    IF n >= 0 /\ n < 100 THEN "1-99"
    ELSE IF n >= 900 THEN "900+"
    ELSE LET k == CHOOSE h \in 1..8 : 100 * h <= n /\ n < 100 * h + 100
         IN  ToString(100 * k) \o "-" \o ToString(100 * k + 99)

keysHolding(m) ==
    {c.key : c \in {d \in Range(categorizedModels) : m \in Range(d.models)}}

\* C10: a descriptor with id n is in the bucket whose bounds contain n; ids 0
\* and 99 are in "1-99", 100 in "100-199", 899 in "800-899", 900 in "900+".
C10_BucketBounds ==
    cpc = "categorized" =>
        \A i \in DOMAIN models :
            LET m == models[i]
            IN  /\ m.id >= 0 => keysHolding(m) = {expectedKey(m.id)}
                /\ m.id \in {0, 99} => keysHolding(m) = {"1-99"}
                /\ m.id = 100 => keysHolding(m) = {"100-199"}
                /\ m.id = 899 => keysHolding(m) = {"800-899"}
                /\ m.id = 900 => keysHolding(m) = {"900+"}

\* an input on both sides of a bucket boundary
C10_Witness ==
    /\ cpc = "categorized"
    /\ \E i, j \in DOMAIN models : models[i].id = 899 /\ models[j].id = 900

\* how many times descriptor m is held by the buckets of the output
held(m) ==
    LET count[k \in 0..Len(categorizedModels)] ==
            IF k = 0 THEN 0
            ELSE count[k - 1] + occurrences(m, categorizedModels[k].models)
    IN  count[Len(categorizedModels)]

bucketSizes ==
    LET total[k \in 0..Len(categorizedModels)] ==
            IF k = 0 THEN 0
            ELSE total[k - 1] + Len(categorizedModels[k].models)
    IN  total[Len(categorizedModels)]

\* C11: for any input sequence every descriptor is in exactly one bucket of
\* the output, as often as it occurs in the input; the bucket sizes sum to
\* the length of the input; no bucket holds a descriptor that was not given.
C11_TotalPartition ==
    cpc = "categorized" =>
        /\ \A i \in DOMAIN models :
              /\ Cardinality(keysHolding(models[i])) = 1
              /\ held(models[i]) = occurrences(models[i], models)
        /\ bucketSizes = Len(models)
        /\ \A k \in DOMAIN categorizedModels :
              Range(categorizedModels[k].models) \subseteq Range(models)

\* an input that holds the same descriptor twice, and one that spreads over
\* two buckets with an id below the first lower bound
C11_Witness ==
    /\ cpc = "categorized"
    /\ Len(models) = 2
    /\ \/ models[1] = models[2]
       \/ (models[1].id = -1 /\ models[2].id >= 900)

\* the keys of the table of the specification, in its order
fixedKeys ==
    << "1-99", "100-199", "200-299", "300-399", "400-499",
       "500-599", "600-699", "700-799", "800-899", "900+" >>

outputKeys == [k \in DOMAIN categorizedModels |-> categorizedModels[k].key]

\* C12: the keys of the returned mapping are exactly the buckets that
\* received a descriptor, no bucket of the output is empty, and the keys come
\* in the fixed table order whatever the order of the input.
C12_KeysNonEmptyInTableOrder ==
    cpc = "categorized" =>
        /\ \A k \in DOMAIN categorizedModels :
              Len(categorizedModels[k].models) > 0
        /\ outputKeys =
              SelectSeq(fixedKeys, LAMBDA r :
                  \E i \in DOMAIN models :
                      r = (IF models[i].id < 0 THEN "1-99"
                           ELSE expectedKey(models[i].id)))

\* an input in descending bucket order, returned in table order
C12_Witness ==
    /\ cpc = "categorized"
    /\ Len(models) = 2
    /\ models[1].id >= 900
    /\ models[2].id = 100
    /\ outputKeys = <<"100-199", "900+">>

\* C23: within every bucket of the output the members are in the order of
\* the input: the bucket is the input sequence restricted to its members; so
\* the buckets of an input sorted by id are sorted by id.
C23_BucketKeepsInputOrder ==
    cpc = "categorized" =>
        \A k \in DOMAIN categorizedModels :
            LET bucket == categorizedModels[k].models
                sorted(s) == \A i, j \in DOMAIN s : i < j => s[i].id <= s[j].id
            IN  /\ bucket = SelectSeq(models, LAMBDA m : m \in Range(bucket))
                /\ sorted(models) => sorted(bucket)

\* two different descriptors of one bucket, given in descending id order
C23_Witness ==
    /\ cpc = "categorized"
    /\ Len(models) = 2
    /\ models[1].id = 199 /\ models[2].id = 100
    /\ Len(categorizedModels) = 1
    /\ categorizedModels[1].models = models

====
